---- MODULE Spec2Model ----
(***************************************************************************)
(* Model of the wire codec of package wl (wire.go): ReadMessage framing a  *)
(* message read from a Unix stream socket through unixTee, and Decode      *)
(* reading typed arguments from the buffered MessageBuffer.                *)
(***************************************************************************)
EXTENDS Integers, Sequences, FiniteSets, TLC

VARIABLES
    conn,     \* receive queue of the socket: bytes not yet received, each with
              \* the descriptors of the sendmsg whose first byte it is
    peer,     \* what the peer wrote (never changes)
    pc,       \* position of ReadMessage: "sender", "so", "payload", "done"
    bs,       \* binary.Read's 4-byte buffer filled so far by io.ReadFull
    dataBuf,  \* ReadMessage's local bytes.Buffer `data`
    oob,      \* ReadMessage's local bytes.Buffer `oob`, as control messages
    mr,       \* the MessageBuffer under construction / returned
    ret,      \* ReadMessage's return: "pending", "ok" (&mr, nil), "err" (nil, err)
    lastOp,   \* the last Decode call: target, outcome, cursor before it
    got,      \* handles returned by the successful *os.File decodes, in order
    ncalls,   \* number of Decode calls made on the envelope
    fx,       \* a Fixed value: how it was made and what its accessors returned
    envs      \* the envelopes the ReadMessage calls on the connection returned

vars == <<conn, peer, pc, bs, dataBuf, oob, mr, ret, lastOp, got, ncalls, fx, envs>>

----------------------------------------------------------------------------
\* Bounds of the model.

\* longest body following a length prefix in the crafted payloads
MaxBody == 6
\* bytes following the header in the framing streams
MaxStream == 8
\* most descriptors the peer attaches to the message
MaxFds == 3
\* Decode calls made on one envelope
MaxDecodes == 4
\* the Fixed inputs around zero: -MaxFixed..MaxFixed
MaxFixed == 300
\* most messages the peer writes back to back
MaxMsgs == 2
\* length of the long payload, read into a buffer whose control space holds
\* a credentials record and descriptors
LongBody == 40

----------------------------------------------------------------------------
\* Widths and platform constants.

\* range of uint16; a uint32 is the pair <<high half, low half>> of uint16
U16 == 65536
\* the 8 byte header
HeaderSize == 8
\* unix.SizeofCmsghdr on 64-bit Linux
SizeofCmsghdr == 16
\* control-message alignment (size of a machine word)
CmsgAlign == 8
\* size of one descriptor inside a rights record
SizeofFd == 4
\* unix.SizeofUcred, the data of a credentials record
SizeofUcred == 12

Min(a, b) == IF a < b THEN a ELSE b

\* byteOrder.Uint32 for the (little-endian) host order
LE32(b) == << b[3] + 256 * b[4], b[1] + 256 * b[2] >>

\* write(): a uint32 in host order, as the peer puts it on the wire
PutLE32(w) == << w[2] % 256, w[2] \div 256, w[1] % 256, w[1] \div 256 >>

\* uint32(n) of a small natural number
U32(n) == << n \div U16, n % U16 >>

\* x + n in uint32 arithmetic, n a small natural number
Add32(x, n) == << (x[1] + ((x[2] + n) \div U16)) % U16, (x[2] + n) % U16 >>

\* x - 1 in uint32 arithmetic
Dec32(x) == IF x[2] > 0 THEN << x[1], x[2] - 1 >> ELSE << (x[1] + U16 - 1) % U16, U16 - 1 >>

\* k < int(x) for an int k >= 0, on a platform with 64-bit int
LessInt(k, x) == IF x[1] >= 32768 THEN TRUE ELSE k < x[1] * U16 + x[2]

\* x < y for two uint32
Less32(x, y) == x[1] < y[1] \/ (x[1] = y[1] /\ x[2] < y[2])

\* int(x) of a uint32 below 2^31
ToInt(x) == x[1] * U16 + x[2]

\* int32(x) of a uint32 bit pattern
ToInt32(x) == IF x[1] >= 32768 THEN (x[1] - U16) * U16 + x[2] ELSE x[1] * U16 + x[2]

\* the size taken from the low half of the word
SizeOfLowHalf(so) == so[2] % U16

\* mr.size = uint16(so >> 16)
SizeOf(so) == so[1] % U16

\* mr.op = uint16(so & 0xFFFF)
OpOf(so) == so[2] % U16

\* the second header word as the peer packs it: (size << 16) | opcode
PackSizeOp(s, o) == << s, o >>

\* unix.CmsgSpace(datalen)
CmsgAlignOf(n) == ((n + CmsgAlign - 1) \div CmsgAlign) * CmsgAlign
CmsgSpace(datalen) == CmsgAlignOf(SizeofCmsghdr) + CmsgAlignOf(datalen)

\* number of descriptors the kernel can store in a control buffer of oobLen
\* bytes; the others are dropped (MSG_CTRUNC)
FdMax(oobLen) ==
    IF oobLen < SizeofCmsghdr THEN 0 ELSE (oobLen - SizeofCmsghdr) \div SizeofFd

----------------------------------------------------------------------------
\* What the peer can send.

Senders == {U32(1), << U16 - 1, U16 - 1 >>}
Sizes == {0, 4, 7, 8, 9, 12, 16, U16 - 1}
Ops == {0, 3, U16 - 1}
\* length prefixes, with the ends of the uint32 range
Lens == {U32(n) : n \in 0..5} \cup {<< U16 - 1, U16 - 2 >>, << U16 - 1, U16 - 1 >>}

Header(s, sz, o) == PutLE32(s) \o PutLE32(PackSizeOp(sz, o))

\* filler bytes after the header of a framing stream
PatByte(j) ==
    CASE j % 8 = 1 -> 2
      [] j % 8 = 5 -> 65
      [] j % 8 \in {0, 7} -> 7
      [] OTHER -> 0
Pat(n) == [j \in 1..n |-> PatByte(j)]

\* bodies: n bytes 'A', at most one of them the null byte
Bodies ==
    {[j \in 1..n |-> IF j = z THEN 0 ELSE 65] : n \in 0..MaxBody, z \in 0..MaxBody}

Payloads == {PutLE32(L) \o b : L \in Lens, b \in Bodies}

\* a well-formed message
Msg(s, o, p) == [sender |-> s, op |-> o, payload |-> p]

FdList(k) == [j \in 1..k |-> 4 + j]

\* the byte stream with the descriptors attached to byte number `at`
Attach(bytes, fds, at) ==
    [j \in 1..Len(bytes) |->
        [b |-> bytes[j], fds |-> IF j = at THEN fds ELSE <<>>]]

\* headers of every size and opcode, the stream cut anywhere
FramingMsgs ==
    {[sender |-> s, size |-> sz, op |-> o, fds |-> <<>>, msgs |-> <<>>,
      stream |-> SubSeq(Header(s, sz, o) \o Pat(MaxStream), 1, t)] :
        s \in Senders, sz \in Sizes, o \in Ops, t \in 0..(HeaderSize + MaxStream)}

\* well-formed headers in front of crafted payloads
PayloadMsgs ==
    {[sender |-> U32(1), size |-> HeaderSize + Len(p), op |-> 3, fds |-> <<>>,
      msgs |-> << Msg(U32(1), 3, p) >>,
      stream |-> Header(U32(1), HeaderSize + Len(p), 3) \o p] : p \in Payloads}

FdPayload == PutLE32(U32(7)) \o PutLE32(U32(2)) \o <<65, 0, 0, 0>>

\* messages that carry descriptors
FdMsgs ==
    {[sender |-> U32(1), size |-> HeaderSize + Len(p), op |-> 3, fds |-> FdList(k),
      msgs |-> << Msg(U32(1), 3, p) >>,
      stream |-> Header(U32(1), HeaderSize + Len(p), 3) \o p] :
        k \in 1..MaxFds, p \in {FdPayload, Pat(LongBody)}}

\* the messages written back to back
SomeMsgs ==
    {Msg(U32(1), 3, <<>>), Msg(U32(2), 4, PutLE32(U32(2))), Msg(U32(1), 0, Pat(8))}

Wire(m) == Header(m.sender, HeaderSize + Len(m.payload), m.op) \o m.payload

RECURSIVE WireAll(_)
WireAll(ms) == IF ms = <<>> THEN <<>> ELSE Wire(Head(ms)) \o WireAll(Tail(ms))

\* one to MaxMsgs well-formed messages, one after the other
BackToBack ==
    {[sender |-> ms[1].sender, size |-> HeaderSize + Len(ms[1].payload), op |-> ms[1].op,
      fds |-> <<>>, msgs |-> ms, stream |-> WireAll(ms)] :
        ms \in UNION {[1..k -> SomeMsgs] : k \in 1..MaxMsgs}}

\* the receiving socket: SO_PASSCRED set or not, and whether the kernel, when
\* it truncates a control message, leaves the length in its header unchanged
\* (the record then claims more bytes than were stored) or rewrites it
PlainSock == [passcred |-> FALSE, keeplen |-> FALSE]
Socks == {PlainSock, [passcred |-> TRUE, keeplen |-> FALSE],
          [passcred |-> FALSE, keeplen |-> TRUE]}

NoOp == [kind |-> "none", res |-> "none", err |-> "", i0 |-> 0, fd0 |-> 0,
         L |-> -1, tlen |-> 0, val0 |-> <<>>, val |-> <<>>]

NoFixed == [stage |-> "none", via |-> "", n |-> 0, v |-> 0, int |-> 0, frac |-> 0,
            float |-> 0]

NoMsg == [sender |-> U32(0), op |-> 0, size |-> 0, data |-> <<>>, i |-> 0,
          fds |-> <<>>, fdindex |-> 0]

Init ==
    /\ \E m \in FramingMsgs \cup PayloadMsgs \cup FdMsgs \cup BackToBack :
         \E at \in IF m.fds = <<>> THEN {0} ELSE {1, HeaderSize + 1} :
         \E so \in IF m.fds = <<>> THEN {PlainSock} ELSE Socks :
            /\ peer = [sender |-> m.sender, size |-> m.size, op |-> m.op,
                       fds |-> m.fds, stream |-> m.stream, msgs |-> m.msgs,
                       passcred |-> so.passcred, keeplen |-> so.keeplen]
            /\ conn = Attach(m.stream, m.fds, at)
    /\ pc = "sender"
    /\ bs = <<>>
    /\ dataBuf = <<>>
    /\ oob = <<>>
    /\ mr = NoMsg
    /\ ret = "pending"
    /\ lastOp = NoOp
    /\ got = <<>>
    /\ ncalls = 0
    /\ fx = NoFixed
    /\ envs = <<>>

----------------------------------------------------------------------------
\* unixTee.Read and ReadMessage.

Bytes(q) == [j \in 1..Len(q) |-> q[j].b]

\* byte counts one receive into a buffer of buflen bytes can return: at least
\* one byte, and the descriptors of at most one sendmsg
RecvSizes(buflen) ==
    {n \in 1..Min(buflen, Len(conn)) :
        Cardinality({j \in 1..n : conn[j].fds # <<>>}) <= 1}

RECURSIVE Rights(_, _)
\* the rights record one receive of n bytes stores in a control buffer that
\* holds at most fdmax descriptors
Rights(n, fdmax) ==
    IF n = 0 THEN <<>>
    ELSE IF conn[n].fds # <<>> /\ fdmax > 0
         THEN Rights(n - 1, fdmax) \o
              << [type |-> "SCM_RIGHTS",
                  fds |-> SubSeq(conn[n].fds, 1, Min(fdmax, Len(conn[n].fds))),
                  short |-> peer.keeplen /\ fdmax < Len(conn[n].fds)] >>
         ELSE Rights(n - 1, fdmax)

\* the control messages one receive of n bytes stores in oobLen bytes: with
\* SO_PASSCRED the credentials first, cut to the space there is, then the
\* descriptors in what is left
Control(n, oobLen) ==
    IF peer.passcred
    THEN << [type |-> "SCM_CREDENTIALS", fds |-> <<>>, short |-> FALSE] >> \o
         Rights(n, FdMax(oobLen - Min(oobLen, CmsgSpace(SizeofUcred))))
    ELSE Rights(n, FdMax(oobLen))

\* unixTee.Read(buf) receiving n bytes: the bytes and what is written to oob
unixTeeRead(buflen, n) ==
    [data |-> Bytes(SubSeq(conn, 1, n)),
     oob  |-> Control(n, CmsgSpace(buflen))]

\* unix.ParseSocketControlMessage fails (EINVAL) on a record whose header
\* claims more bytes than the buffer holds; such a record is the last one of
\* the buffer, no receive of the message following the one that carried the
\* descriptors stores anything when SO_PASSCRED is not set
ParseFails(cmsgs) == \E j \in 1..Len(cmsgs) : cmsgs[j].short

RECURSIVE ParseFdsStops(_)
\* the loop left at the first record that is not a rights record
ParseFdsStops(cmsgs) ==
    IF cmsgs = <<>> THEN <<>>
    ELSE IF Head(cmsgs).type # "SCM_RIGHTS" THEN <<>>
         ELSE Head(cmsgs).fds \o ParseFdsStops(Tail(cmsgs))

RECURSIVE ParseFds(_)
\* the loop over the control messages: unix.ParseUnixRights answers EINVAL for
\* a record that is not a rights record, which is skipped
ParseFds(cmsgs) ==
    IF cmsgs = <<>> THEN <<>>
    ELSE IF Head(cmsgs).type # "SCM_RIGHTS" THEN ParseFds(Tail(cmsgs))
         ELSE Head(cmsgs).fds \o ParseFds(Tail(cmsgs))

\* the receive error dropped: what was read so far is returned as the envelope
FailIgnored ==
    /\ ret' = "ok"
    /\ pc' = "done"
    /\ mr' = [mr EXCEPT !.data = dataBuf]
    /\ UNCHANGED <<conn, bs, dataBuf, oob>>

\* ReadMessage returns nil and the error
Fail ==
    /\ ret' = "err"
    /\ pc' = "done"
    /\ mr' = NoMsg
    /\ UNCHANGED <<conn, bs, dataBuf, oob>>

\* the end of ReadMessage: the control messages are parsed, which may fail,
\* the descriptors are collected and mr.data is reset
Finish(m, payload, cmsgs) ==
    IF ParseFails(cmsgs)
    THEN /\ mr' = NoMsg
         /\ ret' = "err"
         /\ pc' = "done"
    ELSE /\ mr' = [m EXCEPT !.fds = ParseFds(cmsgs), !.data = payload, !.i = 0]
         /\ ret' = "ok"
         /\ pc' = "done"

\* what the caller keeps of a returned envelope
Envelope(m) ==
    [sender |-> m.sender, op |-> m.op, size |-> m.size, data |-> m.data, fds |-> m.fds]

\* the envelopes returned so far, after a step of ReadMessage
Returned == IF ret' = "ok" THEN Append(envs, Envelope(mr')) ELSE envs

\* read(r, &mr.sender)
ReadSender ==
    /\ pc = "sender"
    /\ IF conn = <<>> THEN Fail
       ELSE \E n \in RecvSizes(4 - Len(bs)) :
              LET r == unixTeeRead(4 - Len(bs), n)
                  b == bs \o r.data
              IN /\ conn' = SubSeq(conn, n + 1, Len(conn))
                 /\ oob' = oob \o r.oob
                 /\ IF Len(b) = 4
                    THEN /\ mr' = [mr EXCEPT !.sender = LE32(b)]
                         /\ bs' = <<>>
                         /\ pc' = "so"
                    ELSE /\ bs' = b
                         /\ UNCHANGED <<mr, pc>>
                 /\ UNCHANGED <<dataBuf, ret>>
    /\ envs' = Returned
    /\ UNCHANGED <<peer, lastOp, got, ncalls, fx>>

\* read(r, &so), mr.size, mr.op; a size of at most 8 copies nothing
ReadSizeOp ==
    /\ pc = "so"
    /\ IF conn = <<>> THEN Fail
       ELSE \E n \in RecvSizes(4 - Len(bs)) :
              LET r == unixTeeRead(4 - Len(bs), n)
                  b == bs \o r.data
                  m == [mr EXCEPT !.size = SizeOf(LE32(b)), !.op = OpOf(LE32(b))]
              IN /\ conn' = SubSeq(conn, n + 1, Len(conn))
                 /\ oob' = oob \o r.oob
                 /\ IF Len(b) < 4
                    THEN /\ bs' = b
                         /\ UNCHANGED <<mr, pc, ret>>
                    ELSE /\ bs' = <<>>
                         /\ IF m.size - HeaderSize <= 0
                            THEN Finish(m, <<>>, oob')
                            ELSE /\ mr' = m
                                 /\ pc' = "payload"
                                 /\ UNCHANGED ret
                 /\ UNCHANGED dataBuf
    /\ envs' = Returned
    /\ UNCHANGED <<peer, lastOp, got, ncalls, fx>>

\* io.CopyN(data, r, int64(mr.size)-8)
ReadPayload ==
    /\ pc = "payload"
    /\ IF conn = <<>> THEN Fail
       ELSE LET want == mr.size - HeaderSize - Len(dataBuf) IN
            \E n \in RecvSizes(want) :
              LET r == unixTeeRead(want, n)
                  d == dataBuf \o r.data
              IN /\ conn' = SubSeq(conn, n + 1, Len(conn))
                 /\ oob' = oob \o r.oob
                 /\ dataBuf' = d
                 /\ IF Len(d) = mr.size - HeaderSize
                    THEN Finish(mr, d, oob')
                    ELSE UNCHANGED <<mr, pc, ret>>
                 /\ UNCHANGED bs
    /\ envs' = Returned
    /\ UNCHANGED <<peer, lastOp, got, ncalls, fx>>

\* the next call of ReadMessage on the connection, after one that returned
\* an envelope: var mr MessageBuffer, var oob bytes.Buffer
NextMessage ==
    /\ ret = "ok"
    /\ pc' = "sender"
    /\ ret' = "pending"
    /\ mr' = NoMsg
    /\ bs' = <<>>
    /\ dataBuf' = <<>>
    /\ oob' = <<>>
    /\ lastOp' = NoOp
    /\ got' = <<>>
    /\ ncalls' = 0
    /\ UNCHANGED <<conn, peer, fx, envs>>

ReadMessage == ReadSender \/ ReadSizeOp \/ ReadPayload \/ NextMessage

----------------------------------------------------------------------------
\* Decode.

\* target lengths of a *[]byte target (0 is the nil slice)
TargetLens == {0, 2, 4, 8}
\* what a *string target holds before the call
OldString == <<88>>
\* what a *[]byte target of n bytes holds before the call
OldBytes(n) == [j \in 1..n |-> 170]

\* the offset moved past the end by a short read
ReadNOverrun(d, i, n) ==
    IF LessInt(Len(d) - i, n)
    THEN [ok |-> FALSE, i |-> Len(d) + 1, bs |-> SubSeq(d, i + 1, Len(d))]
    ELSE [ok |-> TRUE, i |-> i + ToInt(n), bs |-> SubSeq(d, i + 1, i + ToInt(n))]

\* io.ReadFull / io.CopyN on the bytes.Reader d at offset i, for n bytes (a
\* uint32): all n are read, or the reader is drained and the read fails
ReadN(d, i, n) ==
    IF LessInt(Len(d) - i, n)
    THEN [ok |-> FALSE, i |-> Len(d), bs |-> SubSeq(d, i + 1, Len(d))]
    ELSE [ok |-> TRUE, i |-> i + ToInt(n), bs |-> SubSeq(d, i + 1, i + ToInt(n))]

\* the error of io.ReadFull after a short read
ShortErr(r) == IF r.bs = <<>> THEN "EOF" ELSE "unexpected EOF"

\* pad := length % (32 / 8)
Pad(length) == length[2] % 4

\* os.NewFile(uintptr(fd), ""): nil for an invalid descriptor
NewFile(fd) == IF fd < 0 THEN <<>> ELSE << fd >>

\* the outcome of one call: result, error, new offset, new descriptor index,
\* the length prefix that was read and the target after the call
Outcome(res, err, i, fdi, L, val) ==
    [res |-> res, err |-> err, i |-> i, fdindex |-> fdi, L |-> L, val |-> val]

\* case *int32, *uint32, *Fixed
DecodeScalarR(b, kind, val0) ==
    LET r == ReadN(b.data, b.i, U32(4)) IN
    IF ~r.ok THEN Outcome("err", ShortErr(r), r.i, b.fdindex, <<>>, val0)
    ELSE Outcome("ok", "", r.i, b.fdindex, <<>>,
                 IF kind = "uint32" THEN LE32(r.bs) ELSE << ToInt32(LE32(r.bs)) >>)

\* case *string
DecodeStringR(b, val0) ==
    LET h == ReadN(b.data, b.i, U32(4)) IN
    IF ~h.ok THEN Outcome("err", ShortErr(h), h.i, b.fdindex, <<>>, val0)
    ELSE
      LET length == LE32(h.bs)
          c == ReadN(b.data, h.i, Add32(length, Pad(length)))
          last == Dec32(length)
      IN IF ~c.ok THEN Outcome("err", "EOF", c.i, b.fdindex, length, val0)
         ELSE IF ~Less32(last, U32(Len(c.bs)))
              THEN Outcome("panic", "index out of range", c.i, b.fdindex, length, val0)
         ELSE IF c.bs[ToInt(last) + 1] # 0
              THEN Outcome("err", "string is not null-terminated", c.i, b.fdindex,
                           length, val0)
         ELSE Outcome("ok", "", c.i, b.fdindex, length, SubSeq(c.bs, 1, ToInt(last)))

\* case *[]byte, the target holding tlen bytes
DecodeBytesR(b, tlen) ==
    LET h == ReadN(b.data, b.i, U32(4)) IN
    IF ~h.ok THEN Outcome("err", ShortErr(h), h.i, b.fdindex, <<>>, OldBytes(tlen))
    ELSE
      LET length == LE32(h.bs)
          c == ReadN(b.data, h.i, U32(tlen))
      IN IF LessInt(tlen, Add32(length, Pad(length)))
         THEN Outcome("panic", "cannot be negative", h.i, b.fdindex, length,
                      OldBytes(tlen))
         ELSE IF ~c.ok
              THEN Outcome("err", ShortErr(c), c.i, b.fdindex, length,
                           c.bs \o SubSeq(OldBytes(tlen), Len(c.bs) + 1, tlen))
         ELSE IF LessInt(tlen, length)
              THEN Outcome("panic", "slice bounds out of range", c.i, b.fdindex,
                           length, c.bs)
         ELSE Outcome("ok", "", c.i, b.fdindex, length, SubSeq(c.bs, 1, ToInt(length)))

\* the descriptor taken and four payload bytes skipped as well
DecodeFileSkipsPayload(b, val0) ==
    IF b.fdindex >= Len(b.fds)
    THEN Outcome("err", "no more file descriptors", b.i, b.fdindex, <<>>, val0)
    ELSE Outcome("ok", "", Min(b.i + 4, Len(b.data)), b.fdindex + 1, <<>>,
                 NewFile(b.fds[b.fdindex + 1]))

\* the descriptor index left where it was
DecodeFileNoAdvance(b, val0) ==
    IF b.fdindex >= Len(b.fds)
    THEN Outcome("err", "no more file descriptors", b.i, b.fdindex, <<>>, val0)
    ELSE Outcome("ok", "", b.i, b.fdindex, <<>>, NewFile(b.fds[b.fdindex + 1]))

\* case **os.File
DecodeFileR(b, val0) ==
    IF b.fdindex >= Len(b.fds)
    THEN Outcome("err", "no more file descriptors", b.i, b.fdindex, <<>>, val0)
    ELSE Outcome("ok", "", b.i, b.fdindex + 1, <<>>, NewFile(b.fds[b.fdindex + 1]))

\* default: panic(fmt.Errorf("unexpected type: %T", val))
DecodeDefaultR(b, val0) ==
    Outcome("panic", "unexpected type", b.i, b.fdindex, <<>>, val0)

\* the call Decode(&mr, val) with outcome o; the control buffer, a local of
\* the ReadMessage call that returned, is gone by then
Call(kind, tlen, val0, o) ==
    /\ ret = "ok"
    /\ ncalls < MaxDecodes
    /\ ncalls' = ncalls + 1
    /\ mr' = [mr EXCEPT !.i = o.i, !.fdindex = o.fdindex]
    /\ lastOp' = [kind |-> kind, res |-> o.res, err |-> o.err, i0 |-> mr.i,
                  fd0 |-> mr.fdindex, L |-> o.L, tlen |-> tlen, val0 |-> val0,
                  val |-> o.val]
    /\ got' = IF kind = "file" /\ o.res = "ok" THEN got \o << o.val >> ELSE got
    /\ oob' = <<>>
    /\ UNCHANGED <<conn, peer, pc, bs, dataBuf, ret, fx, envs>>

DecodeScalar ==
    \E kind \in {"int32", "uint32", "Fixed"} :
        Call(kind, 0, <<>>, DecodeScalarR(mr, kind, <<>>))

DecodeString == Call("string", 0, OldString, DecodeStringR(mr, OldString))

DecodeBytes ==
    \E tlen \in TargetLens :
        Call("bytes", tlen, OldBytes(tlen), DecodeBytesR(mr, tlen))

DecodeFile == Call("file", 0, <<>>, DecodeFileR(mr, <<>>))

\* targets the switch has no case for: *NewID and the slices other than []byte
DecodeDefault ==
    \E kind \in {"NewID", "slice"} :
        Call(kind, 0, <<>>, DecodeDefaultR(mr, <<>>))

Decode == DecodeScalar \/ DecodeString \/ DecodeBytes \/ DecodeFile \/ DecodeDefault

----------------------------------------------------------------------------
\* Fixed: a signed 32-bit value with 8 fractional bits.

\* the smallest and the largest int32
MinInt32 == -2147483647 - 1
MaxInt32 == 2147483647
\* the smallest and the largest integer a Fixed represents
MinFixedInt == -8388608
MaxFixedInt == 8388607

\* FixedInt with the shift one bit short
FixedIntShift7(v) ==
    ToInt32(<< ((v * 128) \div U16) % U16, (v * 128) % U16 >>)

\* FixedInt: Fixed(v << 8), the conversion keeping the low 32 bits
FixedInt(v) ==
    ToInt32(<< ((v * 256) \div U16) % U16, (v * 256) % U16 >>)

\* the division truncating toward zero instead of the arithmetic shift
Fixed_IntTruncating(f) ==
    IF f < 0 /\ f % 256 # 0 THEN (f \div 256) + 1 ELSE f \div 256

\* Fixed.Int: int(f >> 8), the arithmetic shift
Fixed_Int(f) == f \div 256

\* Fixed.Frac: int(uint32(f) & 0xFF), the low byte of the bit pattern
Fixed_Frac(f) == (f % U16) % 256

Abs(x) == IF x < 0 THEN -x ELSE x

\* Float with the fraction left out for a negative value
Fixed_FloatDropsFraction(f) ==
    IF f < 0 THEN 256 * Fixed_Int(f)
    ELSE 256 * Fixed_Int(f) + Abs(Fixed_Frac(f))

\* Fixed.Float: float64(i) + math.Abs(float64(frac) * 2^-8), in units of 1/256
\* (every value involved is exact in float64)
Fixed_Float(f) == 256 * Fixed_Int(f) + Abs(Fixed_Frac(f))

\* the integers handed to FixedInt and the bit patterns read from the wire
FixedInputs ==
    (-MaxFixed..MaxFixed) \cup
    {MinInt32, MinInt32 + 1, MinInt32 + 255, MinInt32 + 256, MaxInt32, MaxInt32 - 255,
     MinFixedInt, MinFixedInt + 1, MaxFixedInt, MaxFixedInt - 1, 1280, -1280}

InitFixed ==
    /\ conn = <<>>
    /\ peer = [sender |-> U32(0), size |-> 0, op |-> 0, fds |-> <<>>, stream |-> <<>>,
               msgs |-> <<>>, passcred |-> FALSE, keeplen |-> FALSE]
    /\ envs = <<>>
    /\ pc = "sender"
    /\ bs = <<>>
    /\ dataBuf = <<>>
    /\ oob = <<>>
    /\ mr = NoMsg
    /\ ret = "pending"
    /\ lastOp = NoOp
    /\ got = <<>>
    /\ ncalls = 0
    /\ \E n \in FixedInputs : fx = [NoFixed EXCEPT !.stage = "input", !.n = n]

\* f := FixedInt(n), for an n the 24 integer bits represent
NewFixedInt ==
    /\ fx.stage = "input"
    /\ fx.n >= MinFixedInt /\ fx.n <= MaxFixedInt
    /\ fx' = [fx EXCEPT !.stage = "value", !.via = "FixedInt", !.v = FixedInt(fx.n)]
    /\ UNCHANGED <<conn, peer, pc, bs, dataBuf, oob, mr, ret, lastOp, got, ncalls, envs>>

\* a Fixed decoded from the wire: any int32
NewFixedWire ==
    /\ fx.stage = "input"
    /\ fx' = [fx EXCEPT !.stage = "value", !.via = "wire", !.v = fx.n]
    /\ UNCHANGED <<conn, peer, pc, bs, dataBuf, oob, mr, ret, lastOp, got, ncalls, envs>>

\* f.Int(), f.Frac(), f.Float()
FixedAccessors ==
    /\ fx.stage = "value"
    /\ fx' = [fx EXCEPT !.stage = "done", !.int = Fixed_Int(fx.v),
                        !.frac = Fixed_Frac(fx.v), !.float = Fixed_Float(fx.v)]
    /\ UNCHANGED <<conn, peer, pc, bs, dataBuf, oob, mr, ret, lastOp, got, ncalls, envs>>

NextFixed == NewFixedInt \/ NewFixedWire \/ FixedAccessors

SpecFixed == InitFixed /\ [][NextFixed]_vars

----------------------------------------------------------------------------
Next ==
    \/ ReadSender
    \/ ReadSizeOp
    \/ ReadPayload
    \/ NextMessage
    \/ DecodeScalar
    \/ DecodeString
    \/ DecodeBytes
    \/ DecodeFile
    \/ DecodeDefault

Spec == Init /\ [][Next]_vars

----------------------------------------------------------------------------
\* The envelope as it was before the last Decode call.
Before == [mr EXCEPT !.i = lastOp.i0, !.fdindex = lastOp.fd0]

\* n rounded up to the next multiple of 4
RoundUp4(n) == ((n + 3) \div 4) * 4

\* C1: the i-th successful *os.File decode returned the handle of the i-th
\* descriptor of the envelope, whatever other decodes were made in between;
\* a file decode made when all k descriptors are consumed fails with "no more
\* file descriptors" and leaves the descriptor index at k.
C1_DescriptorOrder ==
    ret = "ok" =>
        /\ Len(got) <= Len(mr.fds)
        /\ mr.fdindex = Len(got)
        /\ \A j \in 1..Len(got) : got[j] = << mr.fds[j] >>
        /\ (lastOp.kind = "file" /\ lastOp.fd0 >= Len(mr.fds)) =>
              /\ lastOp.res = "err"
              /\ lastOp.err = "no more file descriptors"
              /\ mr.fdindex = Len(mr.fds)
        /\ (lastOp.kind = "file" /\ lastOp.fd0 < Len(mr.fds)) =>
              /\ lastOp.res = "ok"
              /\ lastOp.val = << mr.fds[lastOp.fd0 + 1] >>

\* both descriptors decoded in order, another decode in between, and the
\* third file decode failed
C1_Witness ==
    /\ ret = "ok"
    /\ mr.fds = <<5, 6>>
    /\ got = << <<5>>, <<6>> >>
    /\ lastOp.kind = "file" /\ lastOp.res = "err"
    /\ ncalls > Len(got) + 1

\* C2: decoding a string whose length prefix is 0 returns an error (it does
\* not panic).
C2_ZeroLengthFails ==
    (lastOp.kind = "string" /\ lastOp.L = U32(0)) => lastOp.res = "err"

\* C3: a successful decode of a string or byte array with length prefix L
\* advances the cursor by exactly 4 + L rounded up to a multiple of 4, which
\* leaves a cursor that was on a 4-byte boundary on a 4-byte boundary. (The
\* byte arrays looked at are those decoded into a target of exactly the
\* length read, so that only the padding is at stake.)
C3_PaddedAdvance ==
    (/\ lastOp.res = "ok"
     /\ \/ lastOp.kind = "string"
        \/ lastOp.kind = "bytes" /\ lastOp.tlen = ToInt(lastOp.L) + Pad(lastOp.L)) =>
        /\ mr.i = lastOp.i0 + 4 + RoundUp4(ToInt(lastOp.L))
        /\ lastOp.i0 % 4 = 0 => mr.i % 4 = 0

\* C4: decoding a byte array with length prefix L never panics, whatever the
\* target slice holds, and on success has read exactly L + (L mod 4) bytes
\* after the prefix and returned the first L of them.
C4_BytesAnyTarget ==
    lastOp.kind = "bytes" =>
        /\ lastOp.res # "panic"
        /\ lastOp.res = "ok" =>
              /\ mr.i = lastOp.i0 + 4 + ToInt(lastOp.L) + Pad(lastOp.L)
              /\ lastOp.val = SubSeq(mr.data, lastOp.i0 + 5,
                                     lastOp.i0 + 4 + ToInt(lastOp.L))

\* the byte at offset L-1 after the prefix is absent or is not the null byte
NoTerminator ==
    LET avail == Len(mr.data) - lastOp.i0 - 4
        k == Dec32(lastOp.L)
    IN \/ ~Less32(k, U32(avail))
       \/ mr.data[lastOp.i0 + 4 + ToInt(k) + 1] # 0

\* C5: decoding a string with any length prefix L >= 1 whose terminator is
\* absent or not null returns an error and leaves the target unchanged.
C5_MalformedStringFails ==
    (lastOp.kind = "string" /\ lastOp.L # <<>> /\ lastOp.L # U32(0) /\ NoTerminator) =>
        /\ lastOp.res = "err"
        /\ lastOp.val = lastOp.val0

\* the payload at the cursor holds a string followed by a uint32
NewIDAt(b) ==
    /\ DecodeStringR(b, <<>>).res = "ok"
    /\ DecodeScalarR([b EXCEPT !.i = DecodeStringR(b, <<>>).i], "uint32", <<>>).res = "ok"

\* C6: Decode with a NewID target, on a payload holding a string followed by
\* a uint32, returns no error and advances the cursor past both.
C6_NewIDDecodes ==
    (lastOp.kind = "NewID" /\ NewIDAt(Before)) =>
        /\ lastOp.res = "ok"
        /\ mr.i = DecodeStringR(Before, <<>>).i + 4

\* C7: Decode with a sequence target whose count is 0 yields the empty
\* sequence, consumes exactly 4 bytes and returns no error.
C7_EmptySequenceDecodes ==
    (lastOp.kind = "slice" /\ Len(mr.data) - lastOp.i0 >= 4
        /\ LE32(SubSeq(mr.data, lastOp.i0 + 1, lastOp.i0 + 4)) = U32(0)) =>
        /\ lastOp.res = "ok"
        /\ lastOp.val = <<>>
        /\ mr.i = lastOp.i0 + 4

\* C8: every envelope ReadMessage returns has declared size >= 8 and equal to
\* 8 + the length of its payload.
C8_SizeInvariant ==
    ret = "ok" => (mr.size >= HeaderSize /\ mr.size = HeaderSize + Len(mr.data))

\* C9: when the stream ends before the 8 header bytes and the declared
\* size - 8 payload bytes were read, ReadMessage returns an error and no
\* envelope; a returned envelope never has fewer than size - 8 payload bytes.
C9_ShortReadFails ==
    /\ (ret # "pending" /\ (Len(peer.stream) < HeaderSize \/ Len(peer.stream) < peer.size))
          => (ret = "err" /\ mr = NoMsg)
    /\ ret = "err" => mr = NoMsg
    /\ ret = "ok" =>
          /\ Len(mr.data) >= mr.size - HeaderSize
          /\ Len(peer.stream) - Len(conn) >= HeaderSize

\* the stream ended in the middle of the payload
C9_Witness ==
    /\ ret = "err"
    /\ Len(peer.stream) > HeaderSize
    /\ dataBuf # <<>>
    /\ conn = <<>>

\* the first ReadMessage call on the connection is running or has returned
FirstCall == Len(envs) = IF ret = "ok" THEN 1 ELSE 0

\* C10: the size and opcode the peer packed as (size << 16) | opcode are the
\* size and opcode of the message once the header has been read.
C10_HeaderUnpacked ==
    (FirstCall /\ (pc = "payload" \/ ret = "ok")) =>
        (mr.size = peer.size /\ mr.op = peer.op)

\* size 16 and opcode 3 recovered
C10_Witness ==
    /\ ret = "ok"
    /\ peer.size = 16 /\ peer.op = 3
    /\ mr.size = 16 /\ mr.op = 3

Sign(x) == IF x < 0 THEN -1 ELSE IF x > 0 THEN 1 ELSE 0

\* C11: for every n the 24 integer bits represent, negative ones included,
\* FixedInt(n).Int() = n and FixedInt(n).Frac() = 0.
C11_FixedIntRoundTrip ==
    (fx.stage = "done" /\ fx.via = "FixedInt") => (fx.int = fx.n /\ fx.frac = 0)

\* the accessors applied to FixedInt of the most negative integer
C11_Witness ==
    /\ fx.stage = "done" /\ fx.via = "FixedInt"
    /\ fx.n = MinFixedInt /\ fx.int = MinFixedInt

\* C12 as claimed: 256 * Float(v) = 256 * Int(v) + sign(v) * Frac(v) for
\* every Fixed v.
C12_FloatSigned ==
    fx.stage = "done" => fx.float - 256 * fx.int = Sign(fx.v) * fx.frac

\* C12 as amended: 256 * Float(v) = 256 * Int(v) + Frac(v) for every Fixed v,
\* the fraction added whatever the sign of v.
C12_FloatUnsigned ==
    fx.stage = "done" => fx.float - 256 * fx.int = fx.frac

\* a negative value with a fraction
C12_Witness ==
    /\ fx.stage = "done"
    /\ fx.v = -1 /\ fx.int = -1 /\ fx.frac = 255 /\ fx.float = -1

\* C18: for every Fixed v, 0 <= Frac(v) <= 255 and 256 * Int(v) + Frac(v) = v,
\* so that 256 * Float(v) = v, for negative v as for the others.
C18_Lossless ==
    fx.stage = "done" =>
        /\ fx.frac >= 0 /\ fx.frac <= 255
        /\ 256 * fx.int + fx.frac = fx.v
        /\ fx.float = fx.v

\* the most negative value but one, read from the wire
C18_Witness ==
    /\ fx.stage = "done" /\ fx.via = "wire"
    /\ fx.v = MinInt32 + 1 /\ fx.frac = 1 /\ fx.float = fx.v

Scalars == {"int32", "uint32", "Fixed"}

\* the bit pattern of an int32
PatternOf(x) == << (x \div U16) % U16, x % U16 >>

\* the last call, a scalar decode, read the word at the cursor: with four
\* bytes left it returned their value and moved the cursor by 4, with fewer
\* it returned an error
ScalarRule ==
    lastOp.kind \in Scalars =>
        IF Len(mr.data) - lastOp.i0 >= 4
        THEN /\ lastOp.res = "ok"
             /\ mr.i = lastOp.i0 + 4
             /\ Len(lastOp.val) = IF lastOp.kind = "uint32" THEN 2 ELSE 1
             /\ PutLE32(IF lastOp.kind = "uint32" THEN lastOp.val
                        ELSE PatternOf(lastOp.val[1]))
                  = SubSeq(mr.data, lastOp.i0 + 1, lastOp.i0 + 4)
        ELSE lastOp.res = "err"

\* C16: over every Decode call, failed ones included, the cursor does not
\* decrease and stays within the payload, the descriptor index does not
\* decrease and stays within 0..len(fds); scalars are decoded word after word
\* in payload order and the scalar decode after the last word fails.
C16_ForwardOnly ==
    [][ (ret = "ok" /\ ret' = "ok" /\ ncalls' = ncalls + 1) =>
            /\ mr'.i >= mr.i
            /\ mr'.i <= Len(mr'.data)
            /\ mr'.fdindex >= mr.fdindex
            /\ mr'.fdindex >= 0 /\ mr'.fdindex <= Len(mr'.fds)
            /\ ScalarRule' ]_vars

\* two scalars decoded from an 8-byte payload and the third decode failed
C16_Witness ==
    /\ ret = "ok"
    /\ Len(mr.data) = 8 /\ mr.i = 8
    /\ ncalls = 3
    /\ lastOp.kind \in Scalars /\ lastOp.res = "err" /\ lastOp.i0 = 8

\* C17: a *os.File decode leaves the cursor where it was; a decode into an
\* int32, uint32, Fixed, string or byte array leaves the descriptor list and
\* the descriptor index as they were; no decode changes sender, opcode or size.
C17_Frame ==
    [][ (ret = "ok" /\ ret' = "ok" /\ ncalls' = ncalls + 1) =>
            /\ lastOp'.kind = "file" => mr'.i = mr.i
            /\ lastOp'.kind \in Scalars \cup {"string", "bytes"} =>
                  (mr'.fds = mr.fds /\ mr'.fdindex = mr.fdindex)
            /\ mr'.sender = mr.sender /\ mr'.op = mr.op /\ mr'.size = mr.size ]_vars

\* a descriptor handed out after the cursor had moved, the cursor still there
C17_Witness ==
    /\ ret = "ok"
    /\ lastOp.kind = "file" /\ lastOp.res = "ok"
    /\ lastOp.i0 > 0 /\ mr.i = lastOp.i0 /\ mr.i < Len(mr.data)

\* C13: the descriptors attached to a message all arrive: the envelope lists
\* the k descriptors the peer sent, in order (on a socket without
\* SO_PASSCRED, where the descriptors have the control buffer to themselves).
C13_AllDescriptorsArrive ==
    (Len(envs) >= 1 /\ peer.fds # <<>> /\ ~peer.passcred) => envs[1].fds = peer.fds

RECURSIVE RightsOf(_, _)
\* the descriptors of the rights records among the first j records, in order
RightsOf(cmsgs, j) ==
    IF j = 0 THEN <<>>
    ELSE RightsOf(cmsgs, j - 1) \o
         (IF cmsgs[j].type = "SCM_RIGHTS" THEN cmsgs[j].fds ELSE <<>>)

RECURSIVE SumSizes(_)
SumSizes(es) == IF es = <<>> THEN 0 ELSE Head(es).size + SumSizes(Tail(es))

\* C15: every ReadMessage call that returns an envelope has consumed exactly
\* its declared size from the stream; of messages written back to back the
\* calls return one envelope each, with the sender, opcode and payload
\* written, in the order written.
C15_ExactConsumption ==
    /\ ret = "ok" => Len(peer.stream) - Len(conn) = SumSizes(envs)
    /\ \A j \in 1..Len(envs) :
          j <= Len(peer.msgs) =>
              /\ envs[j].sender = peer.msgs[j].sender
              /\ envs[j].op = peer.msgs[j].op
              /\ envs[j].data = peer.msgs[j].payload
    /\ (ret = "err" /\ peer.fds = <<>>) => Len(envs) >= Len(peer.msgs)
====
